---- MODULE Spec2Model ----
(***************************************************************************)
(* State-machine model of metadrive/envs/real_data_envs/waymo_env.py:      *)
(* WaymoEnv's per-step evaluators (done_function, cost_function,           *)
(* reward_function with its expert-state lookup) and its scenario seed     *)
(* selection (_reset_global_seed, next_seed_reset, last_seed_reset).       *)
(*                                                                         *)
(* Numbers.  Longitudinal and lateral coordinates are integers.  A route   *)
(* completion long / length is never formed: rc > 0.95 is written          *)
(* 100 * long > 95 * length and rc < -0.1 is written 10 * long < -length   *)
(* (length > 0).  Rewards are kept in thirds of a unit, because the        *)
(* lateral factor clip(1 - 2|lat|/6, 0, 1) is a multiple of 1/3 on         *)
(* integer lateral offsets.  Distances to the expert are kept squared.     *)
(***************************************************************************)
EXTENDS Integers, Sequences, FiniteSets, TLC

VARIABLES
    config,        \* self.config (the keys this file reads)
    vehicle,       \* the snapshot of self.vehicles[DEFAULT_AGENT] in this step
    lateral_dist,  \* self.observations[DEFAULT_AGENT].lateral_dist, the cache
    episode_step,  \* self.episode_step
    scenario,      \* self.engine.data_manager.get_scenario(global_seed)
    global_seed,   \* self.engine.global_seed (self.current_seed)
    picked,        \* history: seeds of the latest consecutive sequential selections
    ret            \* what the most recent call returned or raised

vars == <<config, vehicle, lateral_dist, episode_step, scenario,
          global_seed, picked, ret>>

\* An optional integer (a seed, a force_seed argument): None, or Some(n).
None == {}
Some(n) == {n}
ValueOf(opt) == CHOOSE n \in opt : TRUE

\* ------------------------------------------------------------------ bounds

\* Largest start_scenario_index tried.
MaxStart == 5
\* Largest num_scenario tried.
MaxNum == 3
\* Longest validity mask tried.
MaxMaskLen == 3
\* The horizon: the last step index of an episode.
MaxStep == 3

\* ------------------------------------------------------------------ config

\* WAYMO_ENV_CONFIG: the defaults of the keys read by the code modelled here.
WAYMO_ENV_CONFIG ==
    [ start_scenario_index   |-> 0,
      num_scenario           |-> 3,
      sequential_seed        |-> FALSE,
      success_reward         |-> 10,
      out_of_road_penalty    |-> 10,
      crash_vehicle_penalty  |-> 1,
      crash_object_penalty   |-> 1,
      driving_reward         |-> 1,
      use_lateral_reward     |-> FALSE,
      crash_vehicle_cost     |-> 1,
      crash_object_cost      |-> 1,
      out_of_road_cost       |-> 1,
      out_of_route_done      |-> FALSE,
      crash_vehicle_done     |-> FALSE,
      relax_out_of_road_done |-> TRUE,
      coordinate_transform   |-> TRUE ]

\* A user configuration whose rewards, penalties and costs are pairwise
\* distinct, so that the branch an evaluator took shows in its result.
DistinctSchemeConfig ==
    [ WAYMO_ENV_CONFIG EXCEPT
        !.success_reward        = 7,
        !.out_of_road_penalty   = 5,
        !.crash_vehicle_penalty = 3,
        !.crash_object_penalty  = 2,
        !.driving_reward        = 2,
        !.use_lateral_reward    = TRUE,
        !.crash_vehicle_cost    = 2,
        !.crash_object_cost     = 3,
        !.out_of_road_cost      = 4 ]

\* The configurations the termination flags are tried under.
TerminationConfigs(base) ==
    { [ base EXCEPT !.out_of_route_done = a, !.crash_vehicle_done = b,
                    !.relax_out_of_road_done = c ] :
        a \in BOOLEAN, b \in BOOLEAN, c \in BOOLEAN }

DEFAULT_AGENT == "default_agent"

\* ------------------------------------------------------------------ helpers

Abs(x) == IF x < 0 THEN -x ELSE x

\* metadrive.utils.clip
clip(a, low, high) == IF a < low THEN low ELSE IF a > high THEN high ELSE a

\* Python's seq[i] on a sequence of length Len(seq): 0-based, and a negative
\* index counts from the end.  An index outside -Len..Len-1 is an IndexError.
PyInRange(seq, i) == -Len(seq) <= i /\ i < Len(seq)
PyIndex(seq, i) == IF i >= 0 THEN seq[i + 1] ELSE seq[Len(seq) + i + 1]

\* np.where(mask == True)[0]: the 0-based indices of the valid entries.
ValidIndices(mask) == { i \in 0..(Len(mask) - 1) : mask[i + 1] }

SetMax(S) == CHOOSE m \in S : \A x \in S : x <= m

\* Squared Euclidean distance: np.linalg.norm(a - b) ** 2.
NormSq(a, b) == (a[1] - b[1]) * (a[1] - b[1]) + (a[2] - b[2]) * (a[2] - b[2])

\* metadrive.utils.coordinates_shift.waymo_to_metadrive_vector
waymo_to_metadrive_vector(xy) == <<xy[1], -xy[2]>>

\* ------------------------------------------------------------------ predicates

\* _is_arrive_destination: route completion strictly above 0.95.
\* trackLength is vehicle.navigation.reference_trajectory.length.
\* Variant: arrival already at a route completion of exactly 0.95.
MutArriveAtThreshold(v, trackLength) == 100 * v.long >= 95 * trackLength
_is_arrive_destination(v, trackLength) == 100 * v.long > 95 * trackLength

\* _is_out_of_road, reading the cached lateral distance lat.
\* Variant: the relaxed mode also fires on a continuous white line.
MutRelaxedWhiteLine(v, cfg, lat) ==
    IF cfg.relax_out_of_road_done
    THEN (Abs(lat) > 10) \/ v.on_yellow_continuous_line \/ v.crash_sidewalk
         \/ v.on_white_continuous_line
    ELSE LET done == v.crash_sidewalk \/ v.on_yellow_continuous_line
                     \/ v.on_white_continuous_line
         IN  IF cfg.out_of_route_done THEN done \/ Abs(lat) > 10 ELSE done
_is_out_of_road(v, cfg, lat) ==
    IF cfg.relax_out_of_road_done
    THEN (Abs(lat) > 10) \/ v.on_yellow_continuous_line \/ v.crash_sidewalk
    ELSE LET done == v.crash_sidewalk \/ v.on_yellow_continuous_line
                     \/ v.on_white_continuous_line
         IN  IF cfg.out_of_route_done THEN done \/ Abs(lat) > 10 ELSE done

\* ------------------------------------------------------------------ done_function

\* done_function(vehicle_id): (done, done_info).  lat is the cached
\* self.observations[agent].lateral_dist that _is_out_of_road reads.
\* Variant: crash_vehicle reported without consulting crash_vehicle_done.
MutCrashVehicleUngated(v, cfg, lat) ==
    LET arrive == _is_arrive_destination(v, v.track_length) \/ v.long > v.track_length
        out    == _is_out_of_road(v, cfg, lat) \/ 10 * v.long < -v.track_length
        info   == [ crash_vehicle  |-> v.crash_vehicle,
                    crash_object   |-> v.crash_object,
                    crash_building |-> v.crash_building,
                    out_of_road    |-> out,
                    arrive_dest    |-> arrive ]
    IN  [ done      |-> arrive \/ out \/ (v.crash_vehicle /\ cfg.crash_vehicle_done)
                        \/ v.crash_object \/ v.crash_building,
          done_info |-> info @@ [ crash |-> info.crash_vehicle \/ info.crash_object
                                            \/ info.crash_building ] ]
done_function(v, cfg, lat) ==
    LET \* line 166: the helper, or route_completion > 1.0
        arrive == _is_arrive_destination(v, v.track_length) \/ v.long > v.track_length
        \* line 170: the helper, or route_completion < -0.1
        out    == _is_out_of_road(v, cfg, lat) \/ 10 * v.long < -v.track_length
        cv     == v.crash_vehicle /\ cfg.crash_vehicle_done
        \* done starts False; each of the five ifs that fires sets it
        d1     == IF arrive THEN TRUE ELSE FALSE
        d2     == IF out THEN TRUE ELSE d1
        d3     == IF cv THEN TRUE ELSE d2
        d4     == IF v.crash_object THEN TRUE ELSE d3
        d5     == IF v.crash_building THEN TRUE ELSE d4
        info   == [ crash_vehicle  |-> cv,
                    crash_object   |-> v.crash_object,
                    crash_building |-> v.crash_building,
                    out_of_road    |-> out,
                    arrive_dest    |-> arrive ]
    IN  [ done      |-> d5,
          done_info |-> info @@ [ crash |-> info.crash_vehicle \/ info.crash_object
                                            \/ info.crash_building ] ]

\* ------------------------------------------------------------------ cost_function

\* cost_function(vehicle_id): (cost, step_info).
\* Variant: the vehicle crash tested before the out-of-road predicate.
MutCostCrashFirst(v, cfg, lat) ==
    LET cost == IF v.crash_vehicle THEN cfg.crash_vehicle_cost
                ELSE IF _is_out_of_road(v, cfg, lat) THEN cfg.out_of_road_cost
                ELSE IF v.crash_object THEN cfg.crash_object_cost
                ELSE 0
    IN  [ cost |-> cost, step_info |-> [ cost |-> cost ] ]
cost_function(v, cfg, lat) ==
    LET cost == IF _is_out_of_road(v, cfg, lat) THEN cfg.out_of_road_cost
                ELSE IF v.crash_vehicle THEN cfg.crash_vehicle_cost
                ELSE IF v.crash_object THEN cfg.crash_object_cost
                ELSE 0
    IN  [ cost |-> cost, step_info |-> [ cost |-> cost ] ]

\* ------------------------------------------------------------------ expert state

\* Lines 274-277: while mask[current_step] == 0.0: current_step -= 1, leaving
\* the loop when current_step becomes 0.  mask[current_step] is Python
\* indexing, so a negative current_step reads from the end of the mask.
RECURSIVE WalkBack(_, _)
WalkBack(mask, current_step) ==
    IF ~PyInRange(mask, current_step)
    THEN [ exc |-> "IndexError", index |-> current_step ]
    ELSE IF PyIndex(mask, current_step)
    THEN [ exc |-> "none", index |-> current_step ]
    ELSE IF current_step - 1 = 0
    THEN [ exc |-> "none", index |-> 0 ]
    ELSE WalkBack(mask, current_step - 1)

\* Lines 266-277: the index whose position is compared with the agent.
\* np.max of the empty index array raises ValueError.
ExpertIndex(mask, step) ==
    IF ValidIndices(mask) = {}
    THEN [ exc |-> "ValueError", index |-> 0 ]
    ELSE LET largest_valid_index == SetMax(ValidIndices(mask))
             current_step == IF step > largest_valid_index
                             THEN largest_valid_index ELSE step
         IN  WalkBack(mask, current_step)

\* Lines 279-282 and 287-290.
ExpertXY(cfg, xy) ==
    IF cfg.coordinate_transform THEN waymo_to_metadrive_vector(xy) ELSE xy

\* Lines 263-292: the keys added to step_info, or the exception raised.
ExpertDiagnostics(v, cfg, step, data) ==
    LET native_vid == data.sdc_id
    IN  IF native_vid \in DOMAIN data.tracks
           /\ DOMAIN data.tracks[native_vid] # {}
        THEN LET expert_state_list == data.tracks[native_vid].state
                 mask == expert_state_list.valid
                 found == ExpertIndex(mask, step)
             IN  IF found.exc # "none"
                 THEN [ exc |-> found.exc ]
                 ELSE [ exc |-> "none",
                        current_step |-> found.index,
                        info |->
                          [ distance_error |->
                              NormSq(v.position,
                                     ExpertXY(cfg, PyIndex(expert_state_list.position,
                                                           found.index))),
                            distance_error_final |->
                              NormSq(v.position,
                                     ExpertXY(cfg, PyIndex(expert_state_list.position,
                                                           SetMax(ValidIndices(mask))))) ] ]
        ELSE [ exc |-> "none", info |-> [ k \in {} |-> 0 ] ]

\* ------------------------------------------------------------------ reward_function

\* Lines 229-235, in thirds: driving_reward * (long_now - long_last) * lateral_factor.
DenseReward(v, cfg) ==
    LET lateral_factor3 == IF cfg.use_lateral_reward
                           THEN clip(3 - Abs(v.lateral_now), 0, 3)
                           ELSE 3
    IN  cfg.driving_reward * (v.long_now - v.long_last) * lateral_factor3

\* Lines 234-246: the reward after the terminal overrides, in thirds.  The
\* cache was written at line 225, so _is_out_of_road reads v.route_lat.
\* Variant: the terminal value added to the dense reward (reward += ...).
MutRewardAdds(v, cfg) ==
    IF _is_arrive_destination(v, v.track_length)
    THEN DenseReward(v, cfg) + 3 * cfg.success_reward
    ELSE IF _is_out_of_road(v, cfg, v.route_lat)
    THEN DenseReward(v, cfg) - 3 * cfg.out_of_road_penalty
    ELSE IF v.crash_vehicle THEN DenseReward(v, cfg) - 3 * cfg.crash_vehicle_penalty
    ELSE IF v.crash_object THEN DenseReward(v, cfg) - 3 * cfg.crash_object_penalty
    ELSE DenseReward(v, cfg)
TerminalReward(v, cfg) ==
    IF _is_arrive_destination(v, v.track_length) THEN 3 * cfg.success_reward
    ELSE IF _is_out_of_road(v, cfg, v.route_lat) THEN -(3 * cfg.out_of_road_penalty)
    ELSE IF v.crash_vehicle THEN -(3 * cfg.crash_vehicle_penalty)
    ELSE IF v.crash_object THEN -(3 * cfg.crash_object_penalty)
    ELSE DenseReward(v, cfg)

\* reward_function(vehicle_id): (reward, step_info), or the exception raised.
\* current_step is the local of lines 269-280, kept when the lookup ran.
\* The carsize and dynamics_mode entries of step_info, which nothing reads,
\* are left out; route_completion is current_distance / track_length.
reward_function(v, cfg, step, data) ==
    LET expert == ExpertDiagnostics(v, cfg, step, data)
        base   == [ step_reward      |-> DenseReward(v, cfg),
                    track_length     |-> v.track_length,
                    current_distance |-> v.long ]
    IN  IF expert.exc # "none"
        THEN [ exc |-> expert.exc ]
        ELSE [ exc       |-> "none",
               reward    |-> TerminalReward(v, cfg),
               step_info |-> base @@ expert.info ]
             @@ ( IF "current_step" \in DOMAIN expert
                  THEN [ current_step |-> expert.current_step ]
                  ELSE [ k \in {} |-> 0 ] )

\* ------------------------------------------------------------------ seed selection

\* Lines 348-349: the range the assert accepts.
\* Variant: the assert left out.
MutSeedUnchecked(cfg, seed) == TRUE
SeedInWindow(cfg, seed) ==
    cfg.start_scenario_index <= seed
    /\ seed < cfg.start_scenario_index + cfg.num_scenario

\* Lines 335-341: the sequential candidate after the seed `seed` (None: no
\* prior seed).
\* Variant: the wrap tested with > instead of >=.
MutSequentialNoWrap(cfg, seed) ==
    LET current_seed == IF seed = None THEN cfg.start_scenario_index
                        ELSE ValueOf(seed) + 1
    IN  IF current_seed > cfg.start_scenario_index + cfg.num_scenario
        THEN cfg.start_scenario_index
        ELSE current_seed
SequentialSeed(cfg, seed) ==
    LET current_seed == IF seed = None THEN cfg.start_scenario_index
                        ELSE ValueOf(seed) + 1
    IN  IF current_seed >= cfg.start_scenario_index + cfg.num_scenario
        THEN cfg.start_scenario_index
        ELSE current_seed

\* Lines 332-346: the candidates of one selection.  With neither a forced seed
\* nor sequential mode, randint draws any index of the window.
SeedCandidates(cfg, seed, force_seed) ==
    IF force_seed # None THEN { ValueOf(force_seed) }
    ELSE IF cfg.sequential_seed THEN { SequentialSeed(cfg, seed) }
    ELSE cfg.start_scenario_index .. (cfg.start_scenario_index + cfg.num_scenario - 1)

\* The latest num_scenario seeds of an unbroken run of sequential selections.
Latest(cfg, seq) ==
    IF Len(seq) > cfg.num_scenario THEN SubSeq(seq, 2, Len(seq)) ELSE seq

\* _reset_global_seed(force_seed), called as `caller`: the assert of line 348
\* raises before self.seed(current_seed) applies the seed.
ResetGlobalSeed(caller, force_seed) ==
    /\ \E current_seed \in SeedCandidates(config, global_seed, force_seed) :
          IF SeedInWindow(config, current_seed)
          THEN /\ global_seed' = Some(current_seed)
               /\ picked' = IF force_seed = None /\ config.sequential_seed
                            THEN Latest(config, Append(picked, current_seed))
                            ELSE <<>>
               /\ ret' = [ fn |-> caller, exc |-> "none", force_seed |-> force_seed,
                           previous |-> global_seed ]
          ELSE /\ global_seed' = global_seed
               /\ picked' = <<>>
               /\ ret' = [ fn |-> caller, exc |-> "AssertionError",
                           force_seed |-> force_seed, previous |-> global_seed ]
    /\ UNCHANGED <<config, vehicle, lateral_dist, episode_step, scenario>>

\* The forced seeds a caller of reset may pass.
ForceSeeds == (-1) .. (MaxStart + MaxNum + 1)

\* reset(force_seed) reaching _reset_global_seed.
Reset ==
    \E force_seed \in {None} \cup { Some(n) : n \in ForceSeeds } :
        ResetGlobalSeed("_reset_global_seed", force_seed)

\* Lines 138-142: reset(self.current_seed + delta); with no current seed the
\* sum None + delta is a TypeError.
SeedResetBy(caller, delta) ==
    IF global_seed = None
    THEN /\ ret' = [ fn |-> caller, exc |-> "TypeError", force_seed |-> None,
                     previous |-> global_seed ]
         /\ picked' = <<>>
         /\ UNCHANGED <<config, vehicle, lateral_dist, episode_step,
                        scenario, global_seed>>
    ELSE ResetGlobalSeed(caller, Some(ValueOf(global_seed) + delta))

next_seed_reset == SeedResetBy("next_seed_reset", 1)

last_seed_reset == SeedResetBy("last_seed_reset", -1)

\* ------------------------------------------------------------------ evaluator calls

\* One simulation step of the engine: the vehicle takes the state next and
\* the step counter advances; nothing in this file runs.
SimStep(next) ==
    /\ episode_step < MaxStep
    /\ vehicle' = next
    /\ episode_step' = episode_step + 1
    /\ ret' = [ fn |-> "none" ]
    /\ UNCHANGED <<config, lateral_dist, scenario, global_seed, picked>>

DoneFunction ==
    /\ ret' = [ fn |-> "done_function", lat_read |-> lateral_dist ]
              @@ done_function(vehicle, config, lateral_dist)
    /\ UNCHANGED <<config, vehicle, lateral_dist, episode_step, scenario,
                   global_seed, picked>>

CostFunction ==
    /\ ret' = [ fn |-> "cost_function", lat_read |-> lateral_dist ]
              @@ cost_function(vehicle, config, lateral_dist)
    /\ UNCHANGED <<config, vehicle, lateral_dist, episode_step, scenario,
                   global_seed, picked>>

\* Lines 225-226 write the cache before anything can raise.
RewardFunction ==
    /\ lateral_dist' = vehicle.route_lat
    /\ ret' = [ fn |-> "reward_function", lat_read |-> vehicle.route_lat ]
              @@ reward_function(vehicle, config, episode_step, scenario)
    /\ UNCHANGED <<config, vehicle, episode_step, scenario, global_seed, picked>>

\* ------------------------------------------------------------------ inputs

Flags == { "crash_vehicle", "crash_object", "crash_building", "crash_sidewalk",
           "on_yellow_continuous_line", "on_white_continuous_line" }

\* A vehicle at the start of its lane and route, touching nothing.  The
\* reference trajectory is 20 long: 19 is a route completion of exactly 0.95
\* and -2 one of exactly -0.1.
IdleVehicle ==
    [ long |-> 0, track_length |-> 20, route_lat |-> 0,
      long_last |-> 0, long_now |-> 0, lateral_now |-> 0, position |-> <<0, 0>>,
      crash_vehicle |-> FALSE, crash_object |-> FALSE, crash_building |-> FALSE,
      crash_sidewalk |-> FALSE, on_yellow_continuous_line |-> FALSE,
      on_white_continuous_line |-> FALSE ]

\* The six flags of v set to those named in on.
WithFlags(v, on) ==
    [ v EXCEPT !.crash_vehicle = "crash_vehicle" \in on,
               !.crash_object = "crash_object" \in on,
               !.crash_building = "crash_building" \in on,
               !.crash_sidewalk = "crash_sidewalk" \in on,
               !.on_yellow_continuous_line = "on_yellow_continuous_line" \in on,
               !.on_white_continuous_line = "on_white_continuous_line" \in on ]

\* Longitudinal distances on the reference trajectory, on both sides of the
\* -0.1, 0.95 and 1.0 route completions, and route-relative lateral offsets on
\* both sides of the 10 limit.
LongValues == { -3, -2, 19, 20, 21 }
LatValues == { -11, 10, 11 }

\* Lane-relative samples (long_last, long_now, lateral_now).
LaneSamples == { <<0, 2, 0>>, <<0, 2, 1>>, <<1, 0, 4>> }

AtRoute(v, long, lat) == [ v EXCEPT !.long = long, !.route_lat = lat ]
InLane(v, s) == [ v EXCEPT !.long_last = s[1], !.long_now = s[2], !.lateral_now = s[3] ]

\* A scenario record whose SDC track carries the validity mask `mask`, the
\* expert standing at (3t, t) at time t.
ExpertPosition(t) == <<3 * t, t>>
ScenarioWith(mask) ==
    [ sdc_id |-> "sdc",
      tracks |-> [ id \in {"sdc"} |->
                     [ state |-> [ valid |-> mask,
                                   position |-> [ t \in 1..Len(mask) |->
                                                    ExpertPosition(t - 1) ] ] ] ] ]
\* The SDC track missing from the record, and present with an empty entry.
ScenarioNoTrack == [ sdc_id |-> "sdc", tracks |-> [ id \in {} |-> 0 ] ]
ScenarioEmptyTrack ==
    [ sdc_id |-> "sdc", tracks |-> [ id \in {"sdc"} |-> [ k \in {} |-> 0 ] ] ]

Masks == UNION { [ 1..n -> BOOLEAN ] : n \in 1..MaxMaskLen }

\* ------------------------------------------------------------------ specifications

\* A step moves the vehicle along and across the route, or changes one flag.
Moves(v) ==
    { AtRoute(v, long, lat) : long \in LongValues, lat \in LatValues }
    \cup { [ v EXCEPT ![f] = ~v[f] ] : f \in Flags }

\* Termination and cost: every flag combination, position and termination
\* configuration, over the last step of an episode, the three evaluators
\* called in any order.  The cache holds the offset of the current position,
\* as the previous reward_function call left it.
Init ==
    /\ config \in TerminationConfigs(WAYMO_ENV_CONFIG)
                  \cup TerminationConfigs(DistinctSchemeConfig)
    /\ \E on \in SUBSET Flags, long \in LongValues, lat \in LatValues :
          vehicle = AtRoute(WithFlags(IdleVehicle, on), long, lat)
    /\ lateral_dist = vehicle.route_lat
    /\ episode_step = MaxStep - 1
    /\ scenario = ScenarioWith(<<TRUE, TRUE>>)
    /\ global_seed = Some(config.start_scenario_index)
    /\ picked = <<>>
    /\ ret = [ fn |-> "none" ]

Next ==
    \/ \E next \in Moves(vehicle) : SimStep(next)
    \/ DoneFunction
    \/ CostFunction
    \/ RewardFunction

Spec == Init /\ [][Next]_vars

\* Reward: every flag combination, lane sample and out-of-road mode under
\* the default and the distinct scheme, with valid and all-invalid expert data.
RewardConfigs ==
    { [ base EXCEPT !.out_of_route_done = a, !.relax_out_of_road_done = c ] :
        base \in { WAYMO_ENV_CONFIG, DistinctSchemeConfig },
        a \in BOOLEAN, c \in BOOLEAN }

RewardInit ==
    /\ config \in RewardConfigs
    /\ \E on \in SUBSET Flags, long \in {19, 20}, lat \in LatValues, s \in LaneSamples :
          vehicle = InLane(AtRoute(WithFlags(IdleVehicle, on), long, lat), s)
    /\ lateral_dist = vehicle.route_lat
    /\ episode_step = MaxStep - 1
    /\ scenario \in { ScenarioWith(<<TRUE, TRUE>>), ScenarioWith(<<FALSE, FALSE>>) }
    /\ global_seed = Some(config.start_scenario_index)
    /\ picked = <<>>
    /\ ret = [ fn |-> "none" ]

RewardMoves(v) ==
    { InLane(AtRoute(v, long, lat), s) :
        long \in {19, 20}, lat \in LatValues, s \in LaneSamples }

RewardNext ==
    \/ \E next \in RewardMoves(vehicle) : SimStep(next)
    \/ RewardFunction

RewardSpec == RewardInit /\ [][RewardNext]_vars

\* Expert-state lookup: every validity mask up to MaxMaskLen, a missing and
\* an empty track, at every step of an episode.
AgentPositions == { <<0, 0>>, <<3, -1>>, <<3, 1>> }

ExpertInit ==
    /\ config \in { [ WAYMO_ENV_CONFIG EXCEPT !.coordinate_transform = t ] :
                      t \in BOOLEAN }
    /\ vehicle \in { [ IdleVehicle EXCEPT !.position = xy ] : xy \in AgentPositions }
    /\ lateral_dist = vehicle.route_lat
    /\ episode_step = 0
    /\ scenario \in { ScenarioWith(m) : m \in Masks }
                    \cup { ScenarioNoTrack, ScenarioEmptyTrack }
    /\ global_seed = Some(config.start_scenario_index)
    /\ picked = <<>>
    /\ ret = [ fn |-> "none" ]

ExpertNext ==
    \/ \E xy \in AgentPositions : SimStep([ vehicle EXCEPT !.position = xy ])
    \/ RewardFunction

ExpertSpec == ExpertInit /\ [][ExpertNext]_vars

\* Seed selection: every window and mode, no seed selected yet.
WindowConfigs(modes) ==
    { [ WAYMO_ENV_CONFIG EXCEPT !.start_scenario_index = a, !.num_scenario = n,
                                !.sequential_seed = b ] :
        a \in 0..MaxStart, n \in 1..MaxNum, b \in modes }

SeedInit ==
    /\ config \in WindowConfigs(BOOLEAN)
    /\ vehicle = IdleVehicle
    /\ lateral_dist = 0
    /\ episode_step = 0
    /\ scenario = ScenarioWith(<<TRUE, TRUE>>)
    /\ global_seed = None
    /\ picked = <<>>
    /\ ret = [ fn |-> "none" ]

SeedNext ==
    \/ Reset
    \/ next_seed_reset
    \/ last_seed_reset

SeedSpec == SeedInit /\ [][SeedNext]_vars

Window == config.start_scenario_index
          .. (config.start_scenario_index + config.num_scenario - 1)

\* Sequential mode with no force_seed: the environment is reset again and
\* again, starting with no seed or from any seed of the window.
SequentialInit ==
    /\ config \in WindowConfigs({TRUE})
    /\ vehicle = IdleVehicle
    /\ lateral_dist = 0
    /\ episode_step = 0
    /\ scenario = ScenarioWith(<<TRUE, TRUE>>)
    /\ global_seed \in {None} \cup { Some(n) : n \in Window }
    /\ picked = <<>>
    /\ ret = [ fn |-> "none" ]

SequentialNext == ResetGlobalSeed("_reset_global_seed", None)

SequentialSpec ==
    SequentialInit /\ [][SequentialNext]_vars /\ WF_vars(SequentialNext)

\* ------------------------------------------------------------------ claims

\* The out-of-road predicate as the specification words it, on the cached
\* lateral distance lat.
PredicateAsSpecified(v, cfg, lat) ==
    IF cfg.relax_out_of_road_done
    THEN Abs(lat) > 10 \/ v.on_yellow_continuous_line \/ v.crash_sidewalk
    ELSE \/ v.crash_sidewalk
         \/ v.on_yellow_continuous_line
         \/ v.on_white_continuous_line
         \/ (cfg.out_of_route_done /\ Abs(lat) > 10)

\* Route completion above 0.95, and below -0.1.
Above95(v) == 100 * v.long > 95 * v.track_length
BelowMinus10(v) == 10 * v.long < -v.track_length

\* C1: done_function reports every termination reason independently of the
\* others: crash_vehicle iff the vehicle-collision flag is set and
\* crash_vehicle_done is enabled, crash_object and crash_building iff their
\* flags are set, crash is the OR of the three, and done is the OR of
\* arrive_dest, out_of_road, crash_vehicle, crash_object and crash_building.
C1_DoneIsOrOfFiveReasons ==
    ret.fn = "done_function" =>
        LET i == ret.done_info
        IN  /\ i.crash_vehicle = (vehicle.crash_vehicle /\ config.crash_vehicle_done)
            /\ i.crash_object = vehicle.crash_object
            /\ i.crash_building = vehicle.crash_building
            /\ i.crash = (i.crash_vehicle \/ i.crash_object \/ i.crash_building)
            /\ ret.done = ( i.arrive_dest \/ i.out_of_road \/ i.crash_vehicle
                            \/ i.crash_object \/ i.crash_building )

\* C1 witness: done_function has reported arrival, out-of-road, an object and
\* a building crash together, and a vehicle collision that the configuration
\* does not turn into a termination reason.
C1_Witness ==
    /\ ret.fn = "done_function"
    /\ ret.done_info.arrive_dest /\ ret.done_info.out_of_road
    /\ ret.done_info.crash_object /\ ret.done_info.crash_building
    /\ vehicle.crash_vehicle /\ ~config.crash_vehicle_done
    /\ ~ret.done_info.crash_vehicle

\* C2: done_function sets arrive_dest exactly when the route completion is
\* strictly above 0.95, whatever the other flags are.
C2_ArriveIffAbove95 ==
    ret.fn = "done_function" => (ret.done_info.arrive_dest = Above95(vehicle))

\* C2 witness: at a route completion of exactly 0.95 done_function ended
\* the episode for another reason and left arrive_dest false.
C2_Witness ==
    /\ ret.fn = "done_function"
    /\ 100 * vehicle.long = 95 * vehicle.track_length
    /\ ret.done /\ ~ret.done_info.arrive_dest

\* C3: done_function sets out_of_road exactly when the route completion is
\* below -0.1 or the out-of-road predicate, relaxed or strict as configured,
\* fires on the cached lateral distance.
C3_OutOfRoadIff ==
    ret.fn = "done_function" =>
        ( ret.done_info.out_of_road
          = (BelowMinus10(vehicle) \/ PredicateAsSpecified(vehicle, config, lateral_dist)) )

\* C3 witness: in relaxed mode, on a continuous white line at a cached
\* lateral distance of exactly 10, done_function left out_of_road false.
C3_Witness ==
    /\ ret.fn = "done_function"
    /\ config.relax_out_of_road_done
    /\ vehicle.on_white_continuous_line
    /\ Abs(lateral_dist) = 10
    /\ ~ret.done_info.out_of_road

\* The out_of_road flag done_function reports in the current state.
OutOfRoadFlag == done_function(vehicle, config, lateral_dist).done_info.out_of_road

\* C4 as stated: whenever the termination evaluator's out_of_road flag is
\* true and the vehicle-collision flag is set, cost_function returns
\* out_of_road_cost.
C4_AsStated ==
    (ret.fn = "cost_function" /\ OutOfRoadFlag /\ vehicle.crash_vehicle)
        => ret.cost = config.out_of_road_cost

\* C4 amended: cost_function returns the first match in the order
\* out-of-road predicate, vehicle crash, object crash, else 0; so whenever
\* the out-of-road predicate fires and the vehicle-collision flag is set the
\* cost is out_of_road_cost.  A route completion below -0.1 is no out-of-road
\* for the cost.
C4_CostPriorityOnPredicate ==
    ret.fn = "cost_function" =>
        /\ ret.cost =
             IF PredicateAsSpecified(vehicle, config, lateral_dist)
             THEN config.out_of_road_cost
             ELSE IF vehicle.crash_vehicle THEN config.crash_vehicle_cost
             ELSE IF vehicle.crash_object THEN config.crash_object_cost
             ELSE 0
        /\ (PredicateAsSpecified(vehicle, config, lateral_dist) /\ vehicle.crash_vehicle)
              => ret.cost = config.out_of_road_cost

\* C4 witness: the predicate fired with the vehicle-collision flag set,
\* under costs that tell the two apart, and the cost is out_of_road_cost.
C4_Witness ==
    /\ ret.fn = "cost_function"
    /\ PredicateAsSpecified(vehicle, config, lateral_dist)
    /\ vehicle.crash_vehicle
    /\ config.out_of_road_cost # config.crash_vehicle_cost
    /\ ret.cost = config.out_of_road_cost

\* The reward the specification's priority order selects, in thirds:
\* arrival, else out-of-road predicate, else vehicle crash, else object
\* crash, else the dense reward `dense`.  The predicate reads the lateral
\* distance cached by this call.
RewardAsSpecified(v, cfg, dense) ==
    IF Above95(v) THEN 3 * cfg.success_reward
    ELSE IF PredicateAsSpecified(v, cfg, v.route_lat) THEN -(3 * cfg.out_of_road_penalty)
    ELSE IF v.crash_vehicle THEN -(3 * cfg.crash_vehicle_penalty)
    ELSE IF v.crash_object THEN -(3 * cfg.crash_object_penalty)
    ELSE dense

\* C5: whenever reward_function returns, the reward is exactly the terminal
\* value the priority order arrival, out-of-road, vehicle crash, object crash
\* selects, replacing the dense reward, or the dense reward when none
\* applies; and step_reward holds the dense reward in every case.
C5_RewardOverridesReplace ==
    (ret.fn = "reward_function" /\ ret.exc = "none") =>
        /\ ret.step_info.step_reward = DenseReward(vehicle, config)
        /\ ret.reward = RewardAsSpecified(vehicle, config, ret.step_info.step_reward)

\* C5 witness: reward_function returned on arrival with a non-zero dense
\* reward, the out-of-road predicate firing and both collision flags set;
\* the reward is success_reward alone.
C5_Witness ==
    /\ ret.fn = "reward_function" /\ ret.exc = "none"
    /\ Above95(vehicle)
    /\ PredicateAsSpecified(vehicle, config, vehicle.route_lat)
    /\ vehicle.crash_vehicle /\ vehicle.crash_object
    /\ ret.step_info.step_reward # 0
    /\ ret.reward = 3 * config.success_reward
    /\ ret.reward # ret.step_info.step_reward + 3 * config.success_reward

\* The validity mask of the SDC track, when the record carries one.
HasExpertTrack ==
    /\ scenario.sdc_id \in DOMAIN scenario.tracks
    /\ DOMAIN scenario.tracks[scenario.sdc_id] # {}
ExpertMask == scenario.tracks[scenario.sdc_id].state.valid

\* C6 as stated: for a mask with a valid entry, the index whose position
\* gives distance_error is the greatest valid index that is at most
\* min(step, last_valid), or 0 when there is none; it is never negative and
\* never later than the query step.
C6_AsStated ==
    (ret.fn = "reward_function" /\ HasExpertTrack /\ ValidIndices(ExpertMask) # {}) =>
        LET last_valid == SetMax(ValidIndices(ExpertMask))
            clamped    == IF episode_step < last_valid THEN episode_step ELSE last_valid
            earlier    == { i \in ValidIndices(ExpertMask) : i <= clamped }
        IN  /\ ret.exc = "none"
            /\ "current_step" \in DOMAIN ret
            /\ ret.current_step = IF earlier # {} THEN SetMax(earlier) ELSE 0
            /\ 0 <= ret.current_step /\ ret.current_step <= clamped

\* C7 as stated: reward_function never raises on missing or unusable expert
\* data: with the track absent or empty it returns without distance_error
\* and distance_error_final, and with an all-invalid mask it returns using
\* index 0.
C7_AsStated ==
    ret.fn = "reward_function" =>
        /\ ret.exc = "none"
        /\ ~HasExpertTrack =>
              /\ "distance_error" \notin DOMAIN ret.step_info
              /\ "distance_error_final" \notin DOMAIN ret.step_info
        /\ (HasExpertTrack /\ ValidIndices(ExpertMask) = {}) =>
              /\ "current_step" \in DOMAIN ret
              /\ ret.current_step = 0

\* Whether _is_out_of_road reads the cached lateral distance at all.
ReadsCache == config.relax_out_of_road_done \/ config.out_of_route_done

\* C10 as stated: whichever evaluator was called, the lateral distance its
\* out-of-road predicate read is the route-relative lateral offset of the
\* vehicle's position in the current step.
C10_AsStated ==
    (ret.fn \in {"done_function", "cost_function", "reward_function"} /\ ReadsCache)
        => ret.lat_read = vehicle.route_lat

SeedCalls == { "_reset_global_seed", "next_seed_reset", "last_seed_reset" }

\* The seed, when there is one, lies in the configured window.
SeedInsideWindow == global_seed # None => ValueOf(global_seed) \in Window

\* One selection: it applied a seed of the window (the forced one, when a
\* seed was forced), or it failed on a candidate outside the window, or on
\* the missing current seed, and left the seed as it was.
SelectionApplied ==
    /\ ret'.exc = "none"
    /\ global_seed' # None /\ ValueOf(global_seed') \in Window
    /\ ret'.force_seed # None => global_seed' = ret'.force_seed
SelectionRefused ==
    /\ ret'.exc = "AssertionError"
    /\ ret'.force_seed # None /\ ValueOf(ret'.force_seed) \notin Window
    /\ global_seed' = global_seed
SelectionWithoutSeed ==
    /\ ret'.exc = "TypeError"
    /\ ret'.fn \in { "next_seed_reset", "last_seed_reset" }
    /\ global_seed = None /\ global_seed' = None
SelectionStep ==
    ret'.fn \in SeedCalls
        => (SelectionApplied \/ SelectionRefused \/ SelectionWithoutSeed)

\* C8: after any sequence of seed selections the current seed lies in
\* [start_scenario_index, start_scenario_index + num_scenario): each
\* selection either applies a seed of the window or fails before the seed is
\* applied, leaving the previous seed unchanged.
C8_SeedStaysInWindow == [](SeedInsideWindow) /\ [][SelectionStep]_vars

\* C8 witness: next_seed_reset at the last seed of the window was refused
\* and the seed is still that last seed.
C8_Witness ==
    /\ ret.fn = "next_seed_reset"
    /\ ret.exc = "AssertionError"
    /\ global_seed = Some(config.start_scenario_index + config.num_scenario - 1)
    /\ ret.previous = global_seed

\* The cyclic successor of a seed inside the window; the window start when
\* there is no seed.
CyclicSuccessor(seed) ==
    IF seed = None THEN config.start_scenario_index
    ELSE config.start_scenario_index
         + ((ValueOf(seed) + 1 - config.start_scenario_index) % config.num_scenario)

SequentialStep == global_seed' = Some(CyclicSuccessor(global_seed))

\* num_scenario consecutive sequential selections picked every index of the
\* window, each once.
EveryIndexOnce ==
    Len(picked) = config.num_scenario
        => { picked[i] : i \in 1..Len(picked) } = Window

\* C9: in sequential mode with no force_seed each selection yields the
\* cyclic successor of the previous seed (the window start when there is
\* none), any num_scenario consecutive selections pick every index of the
\* window exactly once, and every index is selected again and again.
C9_SequentialCycles ==
    /\ [][SequentialStep]_vars
    /\ [](EveryIndexOnce)
    /\ \A s \in 0..(MaxStart + MaxNum) : []<>(s \notin Window \/ global_seed = Some(s))

\* C9 witness: in the window [5, 8) the selection after seed 7 yielded 5,
\* completing a run of three selections.
C9_Witness ==
    /\ config.start_scenario_index = 5 /\ config.num_scenario = 3
    /\ ret.fn = "_reset_global_seed"
    /\ ret.previous = Some(7)
    /\ global_seed = Some(5)
    /\ Len(picked) = 3

====
